---- MODULE Spec2Model ----
(***************************************************************************)
(* Transportation problem solver: balancing, minimum element method,      *)
(* degeneracy handling, potential method (MODI) and differential rent      *)
(* method.  Matrices and vectors are functions over 0-based index ranges,  *)
(* a plan cell is Null (JavaScript null) or <<x>> (the number x).          *)
(* All quantities are integers, so a comparison against EPSILON (1e-9) or  *)
(* LOCAL_EPSILON (1e-4) is a comparison against 0.                         *)
(***************************************************************************)
EXTENDS Integers, Sequences, FiniteSets, TLC

VARIABLES
  pc,               \* position of the program
  inCosts,          \* constructor argument costs
  costs,            \* TransportationProblemSolver.costs
  originalSupplies, \* TransportationProblemSolver.originalSupplies
  originalDemands,  \* TransportationProblemSolver.originalDemands
  supplies,         \* TransportationProblemSolver.supplies
  demands,          \* TransportationProblemSolver.demands
  m, n,             \* TransportationProblemSolver.m, .n
  isBalanced, isSupplyDummy, isDemandDummy,
  plan,             \* TransportationProblemSolver.plan
  ip,               \* findInitialPlan: local plan (with -1 markers)
  currentSupplies,  \* findInitialPlan: local currentSupplies
  currentDemands,   \* findInitialPlan: local currentDemands
  lastShip,         \* findInitialPlan: the cell and amount of the last shipment
  k, missingCells,  \* handleDegeneracy: loop counter and number of slots
  degWarning,       \* handleDegeneracy logged "Could not add a fictitious allocation"
  iteration,        \* optimizePlanPotentials: local iteration (1 on entry)
  u, v,             \* potentials of the last iteration
  enteringCell,     \* entering cell of the last iteration
  cycle,            \* cycle of the last iteration
  theta,            \* minTheta of the last reallocation: Null or <<x>>
  outcome,          \* how optimizePlanPotentials ended
  dataCosts,        \* TransportData.costs of the differential rent method
  dataSupplies,     \* TransportData.supplies
  dataDemands,      \* TransportData.demands
  drIteration,      \* DifferentialRentSolver.solve: local iteration
  drOutcome,        \* how DifferentialRentMethod.solve ended
  currentCosts,     \* DifferentialRentSolver.currentCosts
  iterationNumber,  \* DifferentialRentSolver.iterationNumber
  allocation,       \* allocation built in the last iteration
  fills,            \* cells filled, in order, in the last iteration
  minCells,         \* minimal-tariff candidates of the last iteration
  rowTypes,         \* surplus and deficit rows of the last iteration
  minRent,          \* minimum rent of the last iteration
  drResult          \* value returned by DifferentialRentMethod.solve

vars == <<pc, inCosts, costs, originalSupplies, originalDemands, supplies,
          demands, m, n, isBalanced, isSupplyDummy, isDemandDummy, plan, ip,
          currentSupplies, currentDemands, lastShip, k, missingCells,
          degWarning, iteration, u, v, enteringCell, cycle, theta, outcome,
          dataCosts, dataSupplies, dataDemands, drIteration, drOutcome,
          currentCosts, iterationNumber, allocation, fills,
          minCells, rowTypes, minRent, drResult>>

solverVars == <<inCosts, costs, originalSupplies, originalDemands, supplies,
                demands, m, n, isBalanced, isSupplyDummy, isDemandDummy>>
initVars == <<ip, currentSupplies, currentDemands, lastShip>>
degVars == <<k, missingCells, degWarning>>
modiVars == <<iteration, u, v, enteringCell, cycle, theta, outcome>>
drVars == <<dataCosts, dataSupplies, dataDemands, drIteration, drOutcome,
            currentCosts, iterationNumber, allocation, fills,
            minCells, rowTypes, minRent, drResult>>

----------------------------------------------------------------------------
(* Bounds of the checked inputs *)

MaxCost == 2
MaxQty == 2
Shapes == {<<1, 1>>, <<1, 2>>, <<2, 1>>, <<2, 2>>}

(* Program constants *)

MAX_ITERATIONS == 10
DR_MAX_ITERATIONS == 50
maxPasses == 20

----------------------------------------------------------------------------
(* Values *)

Null == <<>>
Val(x) == <<x>>
Num(c) == c[1]

Len0(f) == Cardinality(DOMAIN f)
FromSeq(s) == [i \in 0..(Len(s) - 1) |-> s[i + 1]]
FromRows(s) == [i \in 0..(Len(s) - 1) |-> FromSeq(s[i + 1])]
Push(f, x) == [i \in 0..Len0(f) |-> IF i < Len0(f) THEN f[i] ELSE x]
Fill(len, x) == [i \in 0..(len - 1) |-> x]
Abs(x) == IF x < 0 THEN -x ELSE x
Min(a, b) == IF a < b THEN a ELSE b

RECURSIVE SumTo(_, _)
SumTo(f, len) == IF len = 0 THEN 0 ELSE SumTo(f, len - 1) + f[len - 1]
Sum(f) == SumTo(f, Len0(f))

RECURSIVE ColSumTo(_, _, _)
ColSumTo(a, j, len) == IF len = 0 THEN 0 ELSE ColSumTo(a, j, len - 1) + a[len - 1][j]

Cell(row, col) == [row |-> row, col |-> col]

----------------------------------------------------------------------------
(* Inputs *)

BoundedInputs ==
  UNION {{[costs |-> c, supplies |-> s, demands |-> d] :
            c \in [0..(sh[1] - 1) -> [0..(sh[2] - 1) -> 0..MaxCost]],
            s \in [0..(sh[1] - 1) -> 0..MaxQty],
            d \in [0..(sh[2] - 1) -> 0..MaxQty]} : sh \in Shapes}

DefaultInput ==
  [costs |-> FromRows(<<<<4, 9, 1, 3>>, <<2, 5, 5, 6>>, <<2, 5, 10, 4>>, <<3, 7, 2, 6>>>>),
   supplies |-> FromSeq(<<43, 20, 30, 32>>),
   demands |-> FromSeq(<<18, 50, 22, 35>>)]

Scenario1 ==
  [costs |-> FromRows(<<<<1, 2>>, <<3, 4>>>>),
   supplies |-> FromSeq(<<10, 10>>),
   demands |-> FromSeq(<<10, 10>>)]

Scenario3 ==
  [costs |-> FromRows(<<<<2>>, <<4>>>>),
   supplies |-> FromSeq(<<5, 10>>),
   demands |-> FromSeq(<<8>>)]

(* An unbalanced 5x6 instance on which the optimizer applies ten reallocations *)
IterationLimitInput ==
  [costs |-> FromRows(<<<<1, 6, 4, 6, 2, 6>>, <<2, 2, 6, 7, 7, 3>>, <<0, 4, 9, 0, 1, 9>>,
                        <<5, 8, 9, 3, 5, 3>>, <<1, 1, 1, 4, 5, 5>>>>),
   supplies |-> FromSeq(<<3, 8, 2, 2, 3>>),
   demands |-> FromSeq(<<5, 6, 6, 9, 7, 7>>)]

(* A balanced 3x2 instance whose first column has three equal minimal tariffs *)
TiedMinimaInput ==
  [costs |-> FromRows(<<<<1, 2>>, <<1, 0>>, <<1, 2>>>>),
   supplies |-> FromSeq(<<1, 2, 2>>),
   demands |-> FromSeq(<<3, 2>>)]

(* A balanced 3x2 instance whose first row is used up by a column it fills, *)
(* while the second column stays short                                      *)
SatisfiedRowInput ==
  [costs |-> FromRows(<<<<0, 2>>, <<2, 0>>, <<2, 1>>>>),
   supplies |-> FromSeq(<<1, 1, 1>>),
   demands |-> FromSeq(<<1, 2>>)]

Inputs ==
  BoundedInputs
    \cup {DefaultInput, Scenario1, Scenario3, IterationLimitInput, TiedMinimaInput,
          SatisfiedRowInput}

----------------------------------------------------------------------------
(* TransportationProblemSolver: constructor and checkAndBalance *)

NullPlan(rows, cols) == [i \in 0..(rows - 1) |-> Fill(cols, Null)]

DummyAmountSigned(totalSupply, totalDemand) == totalSupply - totalDemand
DummyAmount(totalSupply, totalDemand) == Abs(totalSupply - totalDemand)

DummyCost == 0

SupplyShortFlipped(totalSupply, totalDemand) == totalSupply > totalDemand
SupplyShort(totalSupply, totalDemand) == totalSupply < totalDemand

CheckAndBalance(c, s, d) ==
  LET totalSupply == Sum(s)
      totalDemand == Sum(d)
      diff == DummyAmount(totalSupply, totalDemand)
  IN IF Abs(totalSupply - totalDemand) = 0
     THEN [costs |-> c, supplies |-> s, demands |-> d,
           m |-> Len0(s), n |-> Len0(d), isBalanced |-> TRUE,
           isSupplyDummy |-> FALSE, isDemandDummy |-> FALSE,
           plan |-> NullPlan(Len0(s), Len0(d))]
     ELSE IF SupplyShort(totalSupply, totalDemand)
     THEN [costs |-> Push(c, Fill(Len0(d), DummyCost)),
           supplies |-> Push(s, diff), demands |-> d,
           m |-> Len0(s) + 1, n |-> Len0(d), isBalanced |-> FALSE,
           isSupplyDummy |-> TRUE, isDemandDummy |-> FALSE,
           plan |-> NullPlan(Len0(s) + 1, Len0(d))]
     ELSE [costs |-> [i \in DOMAIN c |-> Push(c[i], DummyCost)],
           supplies |-> s, demands |-> Push(d, diff),
           m |-> Len0(s), n |-> Len0(d) + 1, isBalanced |-> FALSE,
           isSupplyDummy |-> FALSE, isDemandDummy |-> TRUE,
           plan |-> NullPlan(Len0(s), Len0(d) + 1)]

Init ==
  \E inp \in Inputs :
    LET b == CheckAndBalance(inp.costs, inp.supplies, inp.demands)
    IN /\ pc = "constructed"
       /\ inCosts = inp.costs
       /\ originalSupplies = inp.supplies
       /\ originalDemands = inp.demands
       /\ costs = b.costs
       /\ supplies = b.supplies
       /\ demands = b.demands
       /\ m = b.m
       /\ n = b.n
       /\ isBalanced = b.isBalanced
       /\ isSupplyDummy = b.isSupplyDummy
       /\ isDemandDummy = b.isDemandDummy
       /\ plan = b.plan
       /\ ip = Null
       /\ currentSupplies = Null
       /\ currentDemands = Null
       /\ lastShip = Null
       /\ k = 0
       /\ missingCells = 0
       /\ degWarning = FALSE
       /\ iteration = 1
       /\ u = Null
       /\ v = Null
       /\ enteringCell = Null
       /\ cycle = Null
       /\ theta = Null
       /\ outcome = "none"
       /\ dataCosts = inp.costs
       /\ dataSupplies = inp.supplies
       /\ dataDemands = inp.demands
       /\ drIteration = 1
       /\ drOutcome = "none"
       /\ currentCosts = Null
       /\ iterationNumber = 0
       /\ allocation = Null
       /\ fills = <<>>
       /\ minCells = <<>>
       /\ rowTypes = Null
       /\ minRent = Null
       /\ drResult = Null

----------------------------------------------------------------------------
(* MinElementMethod.findInitialPlan *)

CLOSED == -1

Positive(x) == x > 0
IsZero(x) == Abs(x) = 0

SomePositive(f) == \E i \in DOMAIN f : Positive(f[i])

RECURSIVE FindMinCellLast(_, _, _, _, _)
FindMinCellLast(p, c, cols, idx, acc) ==
  IF idx = Len0(p) * cols THEN acc
  ELSE LET i == idx \div cols
           j == idx % cols
       IN IF p[i][j] = Null /\ (acc.minRow = -1 \/ c[i][j] <= acc.minCost)
          THEN FindMinCellLast(p, c, cols, idx + 1,
                               [minCost |-> c[i][j], minRow |-> i, minCol |-> j])
          ELSE FindMinCellLast(p, c, cols, idx + 1, acc)

RECURSIVE FindMinCell(_, _, _, _, _)
FindMinCell(p, c, cols, idx, acc) ==
  IF idx = Len0(p) * cols THEN acc
  ELSE LET i == idx \div cols
           j == idx % cols
       IN IF p[i][j] = Null /\ (acc.minRow = -1 \/ c[i][j] < acc.minCost)
          THEN FindMinCell(p, c, cols, idx + 1,
                           [minCost |-> c[i][j], minRow |-> i, minCol |-> j])
          ELSE FindMinCell(p, c, cols, idx + 1, acc)

MinCell(p, c, cols) ==
  FindMinCell(p, c, cols, 0, [minCost |-> 0, minRow |-> -1, minCol |-> -1])

Shipment(s, d) == Min(s, d)

CloseRow(p, row, cs) ==
  IF IsZero(cs[row])
  THEN [p EXCEPT ![row] = [j \in DOMAIN p[row] |->
                             IF p[row][j] = Null THEN Val(CLOSED) ELSE p[row][j]]]
  ELSE p

CloseColKept(p, col, cd) == p

CloseCol(p, col, cd) ==
  IF IsZero(cd[col])
  THEN [i \in DOMAIN p |-> [p[i] EXCEPT ![col] =
                             IF p[i][col] = Null THEN Val(CLOSED) ELSE p[i][col]]]
  ELSE p

CloseLinesRowFirst(p, row, col, cs, cd) ==
  IF IsZero(cs[row]) THEN CloseRow(p, row, cs) ELSE CloseCol(p, col, cd)

CloseLines(p, row, col, cs, cd) == CloseCol(CloseRow(p, row, cs), col, cd)

CleanMarkers(p) ==
  [i \in DOMAIN p |-> [j \in DOMAIN p[i] |->
     IF p[i][j] = Val(CLOSED) THEN Null ELSE p[i][j]]]

SolveBegin ==
  /\ pc = "constructed"
  /\ pc' = "findInitialPlan"
  /\ ip' = NullPlan(m, n)
  /\ currentSupplies' = supplies
  /\ currentDemands' = demands
  /\ UNCHANGED <<solverVars, plan, lastShip, degVars, modiVars, drVars>>

LoopCondition == SomePositive(currentSupplies) /\ SomePositive(currentDemands)

InitialShip ==
  /\ pc = "findInitialPlan"
  /\ LoopCondition = TRUE
  /\ LET mc == MinCell(ip, costs, n)
     IN /\ mc.minRow # -1
        /\ LET shipment == Shipment(currentSupplies[mc.minRow], currentDemands[mc.minCol])
               cs == [currentSupplies EXCEPT ![mc.minRow] = @ - shipment]
               cd == [currentDemands EXCEPT ![mc.minCol] = @ - shipment]
               p1 == [ip EXCEPT ![mc.minRow][mc.minCol] = Val(shipment)]
           IN /\ ip' = CloseLines(p1, mc.minRow, mc.minCol, cs, cd)
              /\ currentSupplies' = cs
              /\ currentDemands' = cd
              /\ lastShip' = [row |-> mc.minRow, col |-> mc.minCol, amount |-> shipment]
  /\ UNCHANGED <<pc, solverVars, plan, degVars, modiVars, drVars>>

InitialReturn ==
  /\ pc = "findInitialPlan"
  /\ (~LoopCondition \/ MinCell(ip, costs, n).minRow = -1) = TRUE
  /\ plan' = CleanMarkers(ip)
  /\ pc' = "checkDegeneracy"
  /\ UNCHANGED <<solverVars, initVars, degVars, modiVars, drVars>>

----------------------------------------------------------------------------
(* PotentialMethod.isAcyclic and TransportationProblemSolver.checkDegeneracy, *)
(* handleDegeneracy                                                          *)

Cols(p) == Len0(p[0])
RowCount(t, i) == Cardinality({c \in DOMAIN t[i] : t[i][c] # Null})
ColCount(t, j) == Cardinality({r \in DOMAIN t : t[r][j] # Null})
FilledCount(p) == Cardinality({c \in (DOMAIN p) \X (DOMAIN p[0]) : p[c[1]][c[2]] # Null})

RECURSIVE AcyclicSweep(_, _, _)
AcyclicSweep(t, idx, removed) ==
  IF idx = Len0(t) * Cols(t) THEN [t |-> t, removed |-> removed]
  ELSE LET i == idx \div Cols(t)
           j == idx % Cols(t)
       IN IF t[i][j] # Null /\ (RowCount(t, i) = 1 \/ ColCount(t, j) = 1)
          THEN AcyclicSweep([t EXCEPT ![i][j] = Null], idx + 1, removed + 1)
          ELSE AcyclicSweep(t, idx + 1, removed)

RECURSIVE AcyclicPrune(_, _)
AcyclicPrune(t, removedCount) ==
  LET r == AcyclicSweep(t, 0, 0)
  IN IF r.removed = 0 THEN removedCount
     ELSE AcyclicPrune(r.t, removedCount + r.removed)

isAcyclicAlways(p) == TRUE
isAcyclic(p) == FilledCount(p) - AcyclicPrune(p, 0) <= 1

RequiredCells(rows, cols) == rows + cols - 1
MissingCellsShort(requiredCells, filledCells) == requiredCells - filledCells - 1
MissingCells(requiredCells, filledCells) == requiredCells - filledCells
SlotsLeft(kk, missing) == kk < missing

CheckDegeneracy ==
  /\ pc = "checkDegeneracy"
  /\ LET filledCells == FilledCount(plan)
         requiredCells == RequiredCells(m, n)
     IN IF filledCells < requiredCells
        THEN /\ missingCells' = MissingCells(requiredCells, filledCells)
             /\ k' = 0
             /\ pc' = IF MissingCells(requiredCells, filledCells) > 0
                         /\ SlotsLeft(0, MissingCells(requiredCells, filledCells))
                      THEN "handleDegeneracy" ELSE "optimize"
        ELSE /\ UNCHANGED <<missingCells, k>>
             /\ pc' = "optimize"
  /\ UNCHANGED <<solverVars, plan, initVars, degWarning, modiVars, drVars>>

CandidateCostlier(p, c, i, j, acc) ==
  /\ p[i][j] = Null
  /\ (acc.bestCell = Null \/ c[i][j] > acc.minCost)
  /\ isAcyclic([p EXCEPT ![i][j] = Val(0)])

Candidate(p, c, i, j, acc) ==
  /\ p[i][j] = Null
  /\ (acc.bestCell = Null \/ c[i][j] < acc.minCost)
  /\ isAcyclic([p EXCEPT ![i][j] = Val(0)])

RECURSIVE FindBestCell(_, _, _, _)
FindBestCell(p, c, idx, acc) ==
  IF idx = Len0(p) * Cols(p) THEN acc
  ELSE LET i == idx \div Cols(p)
           j == idx % Cols(p)
       IN IF Candidate(p, c, i, j, acc)
          THEN FindBestCell(p, c, idx + 1, [minCost |-> c[i][j], bestCell |-> Cell(i, j)])
          ELSE FindBestCell(p, c, idx + 1, acc)

BestCell(p, c) == FindBestCell(p, c, 0, [minCost |-> 0, bestCell |-> Null]).bestCell

HandleDegeneracyStep ==
  /\ pc = "handleDegeneracy"
  /\ SlotsLeft(k, missingCells)
  /\ LET bestCell == BestCell(plan, costs)
     IN IF bestCell # Null
        THEN /\ plan' = [plan EXCEPT ![bestCell.row][bestCell.col] = Val(0)]
             /\ k' = k + 1
             /\ pc' = IF SlotsLeft(k + 1, missingCells) THEN "handleDegeneracy" ELSE "optimize"
             /\ UNCHANGED degWarning
        ELSE /\ degWarning' = TRUE
             /\ pc' = "optimize"
             /\ UNCHANGED <<plan, k>>
  /\ UNCHANGED <<solverVars, initVars, missingCells, modiVars, drVars>>

----------------------------------------------------------------------------
(* PotentialMethod: calculatePotentials, calculateDeltas, findMaxDelta *)

RECURSIVE FindBaseRow(_, _, _)
FindBaseRow(p, i, acc) ==
  IF i = Len0(p) THEN acc.baseRow
  ELSE IF RowCount(p, i) > acc.maxFilled
       THEN FindBaseRow(p, i + 1, [maxFilled |-> RowCount(p, i), baseRow |-> i])
       ELSE FindBaseRow(p, i + 1, acc)

BaseRow(p) == FindBaseRow(p, 0, [maxFilled |-> -1, baseRow |-> 0])

RECURSIVE PotentialsSweep(_, _, _, _)
PotentialsSweep(p, c, idx, uv) ==
  IF idx = Len0(p) * Cols(p) THEN uv
  ELSE LET i == idx \div Cols(p)
           j == idx % Cols(p)
       IN IF p[i][j] # Null /\ uv.u[i] # Null /\ uv.v[j] = Null
          THEN PotentialsSweep(p, c, idx + 1,
                 [uv EXCEPT !.v[j] = Val(c[i][j] - Num(uv.u[i]))])
          ELSE IF p[i][j] # Null /\ uv.u[i] = Null /\ uv.v[j] # Null
          THEN PotentialsSweep(p, c, idx + 1,
                 [uv EXCEPT !.u[i] = Val(c[i][j] - Num(uv.v[j]))])
          ELSE PotentialsSweep(p, c, idx + 1, uv)

PotentialsPassesOnce(p, c, pass, uv) == PotentialsSweep(p, c, 0, uv)

RECURSIVE PotentialsPasses(_, _, _, _)
PotentialsPasses(p, c, pass, uv) ==
  IF pass = Len0(p) + Cols(p) THEN uv
  ELSE PotentialsPasses(p, c, pass + 1, PotentialsSweep(p, c, 0, uv))

DefaultZero(f) == [i \in DOMAIN f |-> IF f[i] = Null THEN 0 ELSE Num(f[i])]

calculatePotentials(p, c) ==
  LET baseRow == BaseRow(p)
      start == [u |-> [Fill(Len0(p), Null) EXCEPT ![baseRow] = Val(0)],
                v |-> Fill(Cols(p), Null)]
      uv == PotentialsPasses(p, c, 0, start)
  IN [u |-> DefaultZero(uv.u), v |-> DefaultZero(uv.v), baseRow |-> baseRow,
      assigned |-> (\A i \in DOMAIN uv.u : uv.u[i] # Null)
                     /\ (\A j \in DOMAIN uv.v : uv.v[j] # Null)]

Delta(c, uu, vv, i, j) == uu[i] + vv[j] - c[i][j]

calculateDeltas(p, c, uu, vv) ==
  [i \in DOMAIN p |-> [j \in DOMAIN p[i] |->
     IF p[i][j] = Null THEN Val(Delta(c, uu, vv, i, j)) ELSE Null]]

ExceedsReversed(d, acc) == acc.enteringCell = Null \/ d < acc.maxDelta
Exceeds(d, acc) == acc.enteringCell = Null \/ d > acc.maxDelta

RECURSIVE FindMaxDeltaFrom(_, _, _, _)
FindMaxDeltaFrom(p, deltas, idx, acc) ==
  IF idx = Len0(p) * Cols(p) THEN acc
  ELSE LET i == idx \div Cols(p)
           j == idx % Cols(p)
       IN IF p[i][j] = Null /\ deltas[i][j] # Null /\ Exceeds(Num(deltas[i][j]), acc)
          THEN FindMaxDeltaFrom(p, deltas, idx + 1,
                 [maxDelta |-> Num(deltas[i][j]), enteringCell |-> Cell(i, j)])
          ELSE FindMaxDeltaFrom(p, deltas, idx + 1, acc)

findMaxDelta(p, deltas) ==
  FindMaxDeltaFrom(p, deltas, 0, [maxDelta |-> 0, enteringCell |-> Null])

IsOptimal(md) == md.enteringCell = Null \/ md.maxDelta <= 0

----------------------------------------------------------------------------
(* PotentialMethod: findCycle *)

PruneOnce(t) ==
  [i \in DOMAIN t |-> [j \in DOMAIN t[i] |->
     IF t[i][j] # Null /\ (RowCount(t, i) = 1 \/ ColCount(t, j) = 1)
     THEN Null ELSE t[i][j]]]

RECURSIVE Prune(_)
Prune(t) == IF PruneOnce(t) = t THEN t ELSE Prune(PruneOnce(t))

RECURSIVE CollectPoints(_, _)
CollectPoints(t, idx) ==
  IF idx = Len0(t) * Cols(t) THEN <<>>
  ELSE LET i == idx \div Cols(t)
           j == idx % Cols(t)
       IN IF t[i][j] # Null
          THEN <<Cell(i, j)>> \o CollectPoints(t, idx + 1)
          ELSE CollectPoints(t, idx + 1)

RemoveAt(s, idx) == SubSeq(s, 1, idx - 1) \o SubSeq(s, idx + 1, Len(s))

FirstIn(points, P(_)) ==
  IF \E idx \in 1..Len(points) : P(points[idx])
  THEN CHOOSE idx \in 1..Len(points) :
         P(points[idx]) /\ \A e \in 1..(idx - 1) : ~P(points[e])
  ELSE 0

RECURSIVE BuildPathColumnFirst(_, _, _)
BuildPathColumnFirst(points, path, current) ==
  IF Len(points) = 0 THEN path
  ELSE LET InRow(q) == q.row = current.row
           InCol(q) == q.col = current.col
           nextInRow == FirstIn(points, InRow)
           nextInCol == FirstIn(points, InCol)
       IN IF nextInCol # 0
          THEN BuildPathColumnFirst(RemoveAt(points, nextInCol),
                                    Append(path, points[nextInCol]), points[nextInCol])
          ELSE IF nextInRow # 0
          THEN BuildPathColumnFirst(RemoveAt(points, nextInRow),
                                    Append(path, points[nextInRow]), points[nextInRow])
          ELSE path

RECURSIVE BuildPath(_, _, _)
BuildPath(points, path, current) ==
  IF Len(points) = 0 THEN path
  ELSE LET InRow(q) == q.row = current.row
           InCol(q) == q.col = current.col
           nextInRow == FirstIn(points, InRow)
           nextInCol == FirstIn(points, InCol)
       IN IF nextInRow # 0
          THEN BuildPath(RemoveAt(points, nextInRow),
                         Append(path, points[nextInRow]), points[nextInRow])
          ELSE IF nextInCol # 0
          THEN BuildPath(RemoveAt(points, nextInCol),
                         Append(path, points[nextInCol]), points[nextInCol])
          ELSE path

Closes(last, first, len) ==
  (last.row = first.row \/ last.col = first.col) /\ len > 2

(* findCycle works on a clone, so the plan it was given is left as it was *)
PlanAfterFindCycleAliased(p, startCell) ==
  Prune([p EXCEPT ![startCell.row][startCell.col] = Val(0)])

PlanAfterFindCycle(p, startCell) == p

findCycle(p, startCell) ==
  LET tempPlan == Prune([p EXCEPT ![startCell.row][startCell.col] = Val(0)])
      cyclePoints == CollectPoints(tempPlan, 0)
      IsStart(q) == q = startCell
      startIndex == FirstIn(cyclePoints, IsStart)
      rest == IF startIndex # 0 THEN RemoveAt(cyclePoints, startIndex) ELSE cyclePoints
      cyclePath == BuildPath(rest, <<startCell>>, startCell)
  IN IF Len(cyclePoints) < 4 THEN Null
     ELSE IF Closes(cyclePath[Len(cyclePath)], cyclePath[1], Len(cyclePath))
     THEN cyclePath
     ELSE Null

----------------------------------------------------------------------------
(* PotentialMethod: reallocatePlan.  The cycle is a sequence, so position   *)
(* i of the code is index i + 1 here: odd positions are even indices.      *)

RECURSIVE MinThetaFromTruthy(_, _, _, _)
MinThetaFromTruthy(cyc, p, idx, acc) ==
  IF idx > Len(cyc) THEN acc
  ELSE LET cell == p[cyc[idx].row][cyc[idx].col]
       IN IF cell # Null /\ cell # Val(0) /\ (acc = Null \/ Num(cell) < Num(acc))
          THEN MinThetaFromTruthy(cyc, p, idx + 2, cell)
          ELSE MinThetaFromTruthy(cyc, p, idx + 2, acc)

RECURSIVE MinThetaFrom(_, _, _, _)
MinThetaFrom(cyc, p, idx, acc) ==
  IF idx > Len(cyc) THEN acc
  ELSE LET cell == p[cyc[idx].row][cyc[idx].col]
       IN IF cell # Null /\ (acc = Null \/ Num(cell) < Num(acc))
          THEN MinThetaFrom(cyc, p, idx + 2, cell)
          ELSE MinThetaFrom(cyc, p, idx + 2, acc)

MinTheta(cyc, p) == Num(MinThetaFrom(cyc, p, 2, Null))

Increase(cell, amount) == Val((IF cell = Null THEN 0 ELSE Num(cell)) + amount)
DecreaseKept(cell, amount) == cell
Decrease(cell, amount) == Val((IF cell = Null THEN 0 ELSE Num(cell)) - amount)

IsIncreasePositionSwapped(idx) == idx % 2 = 0
IsIncreasePosition(idx) == idx % 2 = 1

RECURSIVE UpdateAllocations(_, _, _, _)
UpdateAllocations(cyc, p, idx, amount) ==
  IF idx > Len(cyc) THEN p
  ELSE LET row == cyc[idx].row
           col == cyc[idx].col
       IN IF IsIncreasePosition(idx)
          THEN UpdateAllocations(cyc, [p EXCEPT ![row][col] = Increase(@, amount)],
                                 idx + 1, amount)
          ELSE UpdateAllocations(cyc, [p EXCEPT ![row][col] = Decrease(@, amount)],
                                 idx + 1, amount)

RECURSIVE LeavingCellFromLast(_, _, _)
LeavingCellFromLast(cyc, p, idx) ==
  IF idx > Len(cyc) THEN Null
  ELSE LET later == LeavingCellFromLast(cyc, p, idx + 2)
       IN IF later # Null THEN later
          ELSE IF IsZero(Num(p[cyc[idx].row][cyc[idx].col])) THEN cyc[idx]
          ELSE Null

RECURSIVE LeavingCellFrom(_, _, _)
LeavingCellFrom(cyc, p, idx) ==
  IF idx > Len(cyc) THEN Null
  ELSE IF IsZero(Num(p[cyc[idx].row][cyc[idx].col]))
       THEN cyc[idx]
       ELSE LeavingCellFrom(cyc, p, idx + 2)

RemoveLeavingKept(p, leavingCell) == p

RemoveLeaving(p, leavingCell) ==
  IF leavingCell # Null
  THEN [p EXCEPT ![leavingCell.row][leavingCell.col] = Null]
  ELSE p

reallocatePlan(cyc, p) ==
  LET minTheta == MinTheta(cyc, p)
      updated == UpdateAllocations(cyc, p, 1, minTheta)
      leavingCell == LeavingCellFrom(cyc, updated, 2)
  IN [plan |-> RemoveLeaving(updated, leavingCell),
      theta |-> minTheta, leavingCell |-> leavingCell]

calculateTotalCost(p, c) ==
  LET RowCost(i) ==
        Sum([j \in DOMAIN p[i] |-> IF p[i][j] # Null THEN Num(p[i][j]) * c[i][j] ELSE 0])
  IN Sum([i \in DOMAIN p |-> RowCost(i)])

----------------------------------------------------------------------------
(* TransportationProblemSolver.optimizePlanPotentials: one pass of the loop *)

ModiLoopConditionStrict(it) == it < MAX_ITERATIONS
ModiLoopCondition(it) == it <= MAX_ITERATIONS
IterationsExceededLate(it) == it > MAX_ITERATIONS + 1
IterationsExceeded(it) == it > MAX_ITERATIONS

ModiIteration ==
  /\ pc = "optimize"
  /\ ModiLoopCondition(iteration)
  /\ LET pot == calculatePotentials(plan, costs)
         deltas == calculateDeltas(plan, costs, pot.u, pot.v)
         md == findMaxDelta(plan, deltas)
     IN /\ u' = pot.u
        /\ v' = pot.v
        /\ enteringCell' = md.enteringCell
        /\ IF IsOptimal(md)
           THEN /\ outcome' = "optimal"
                /\ pc' = "drSolve"
                /\ UNCHANGED <<plan, cycle, theta, iteration>>
           ELSE LET cyc == findCycle(plan, md.enteringCell)
                    planAfter == PlanAfterFindCycle(plan, md.enteringCell)
                IN IF cyc = Null
                   THEN /\ outcome' = "cycleNotFound"
                        /\ pc' = "drSolve"
                        /\ cycle' = Null
                        /\ plan' = planAfter
                        /\ UNCHANGED <<theta, iteration>>
                   ELSE LET r == reallocatePlan(cyc, planAfter)
                        IN /\ plan' = r.plan
                           /\ cycle' = cyc
                           /\ theta' = Val(r.theta)
                           /\ iteration' = iteration + 1
                           /\ IF ModiLoopCondition(iteration + 1)
                              THEN UNCHANGED <<outcome, pc>>
                              ELSE /\ pc' = "drSolve"
                                   /\ outcome' = IF IterationsExceeded(iteration + 1)
                                                 THEN "maxIterations" ELSE outcome
  /\ UNCHANGED <<solverVars, initVars, degVars, drVars>>

----------------------------------------------------------------------------
(* DifferentialRentSolver.buildConditionalOptimalAllocation *)

CheaperReversed(cost, minCost) == cost > minCost
Cheaper(cost, minCost) == cost < minCost

RECURSIVE MinRowsFrom(_, _, _, _)
MinRowsFrom(cur, j, i, acc) ==
  IF i = Len0(cur) THEN acc
  ELSE IF acc.minCost = Null \/ Cheaper(cur[i][j], Num(acc.minCost))
       THEN MinRowsFrom(cur, j, i + 1, [minCost |-> Val(cur[i][j]), minRows |-> <<i>>])
       ELSE IF Abs(cur[i][j] - Num(acc.minCost)) = 0
       THEN MinRowsFrom(cur, j, i + 1, [acc EXCEPT !.minRows = Append(@, i)])
       ELSE MinRowsFrom(cur, j, i + 1, acc)

MinRows(cur, j) == MinRowsFrom(cur, j, 0, [minCost |-> Null, minRows |-> <<>>])

RECURSIVE SelectedRowFromLast(_, _, _, _)
SelectedRowFromLast(rows, sup, idx, best) ==
  IF idx > Len(rows) THEN best
  ELSE SelectedRowFromLast(rows, sup, idx + 1,
                           IF sup[rows[idx]] >= sup[best] THEN rows[idx] ELSE best)

RECURSIVE SelectedRowFrom(_, _, _, _)
SelectedRowFrom(rows, sup, idx, best) ==
  IF idx > Len(rows) THEN best
  ELSE SelectedRowFrom(rows, sup, idx + 1,
                       IF sup[rows[idx]] > sup[best] THEN rows[idx] ELSE best)

SelectedRow(rows, sup) == SelectedRowFrom(rows, sup, 2, rows[1])

SingleMinimumTwice(itn, rows) == itn <= 2 /\ Len(rows) > 1
SingleMinimum(itn, rows) == itn = 1 /\ Len(rows) > 1

ColumnMinCells(cur, sup, itn, j) ==
  LET mr == MinRows(cur, j)
  IN IF SingleMinimum(itn, mr.minRows)
     THEN <<[row |-> SelectedRow(mr.minRows, sup), col |-> j, cost |-> Num(mr.minCost)]>>
     ELSE [idx \in 1..Len(mr.minRows) |->
             [row |-> mr.minRows[idx], col |-> j, cost |-> Num(mr.minCost)]]

RECURSIVE MinCellsFrom(_, _, _, _)
MinCellsFrom(cur, sup, itn, j) ==
  IF j = Cols(cur) THEN <<>>
  ELSE ColumnMinCells(cur, sup, itn, j) \o MinCellsFrom(cur, sup, itn, j + 1)

MinCells(cur, sup, itn) == MinCellsFrom(cur, sup, itn, 0)

FillAmountSupply(rs, rd) == rs
FillAmount(rs, rd) == Min(rs, rd)

FillCell(st, cell, amount, how) ==
  [allocation |-> [st.allocation EXCEPT ![cell.row][cell.col] = @ + amount],
   remainingSupply |-> [st.remainingSupply EXCEPT ![cell.row] = @ - amount],
   remainingDemand |-> [st.remainingDemand EXCEPT ![cell.col] = @ - amount],
   processedCells |-> st.processedCells \cup {<<cell.row, cell.col>>},
   fills |-> Append(st.fills, [row |-> cell.row, col |-> cell.col,
                               amount |-> amount, how |-> how]),
   changed |-> TRUE]

FillUnique(st, availableCells, how) ==
  IF Len(availableCells) = 1
  THEN LET cell == availableCells[1]
           amount == FillAmount(st.remainingSupply[cell.row], st.remainingDemand[cell.col])
       IN IF Positive(amount) THEN FillCell(st, cell, amount, how) ELSE st
  ELSE st

RECURSIVE FillColumns(_, _, _)
FillColumns(st, mcs, j) ==
  IF j = Len0(st.remainingDemand) THEN st
  ELSE IF st.remainingDemand[j] <= 0 THEN FillColumns(st, mcs, j + 1)
  ELSE LET Available(cell) == /\ cell.col = j
                              /\ Positive(st.remainingSupply[cell.row])
                              /\ <<cell.row, cell.col>> \notin st.processedCells
       IN FillColumns(FillUnique(st, SelectSeq(mcs, Available), "column"), mcs, j + 1)

RECURSIVE FillRows(_, _, _)
FillRows(st, mcs, i) ==
  IF i = Len0(st.remainingSupply) THEN st
  ELSE IF st.remainingSupply[i] <= 0 THEN FillRows(st, mcs, i + 1)
  ELSE LET Available(cell) == /\ cell.row = i
                              /\ Positive(st.remainingDemand[cell.col])
                              /\ <<cell.row, cell.col>> \notin st.processedCells
       IN FillRows(FillUnique(st, SelectSeq(mcs, Available), "row"), mcs, i + 1)

Compare(a, b, rs) ==
  IF Abs(a.cost - b.cost) > 0 THEN a.cost - b.cost
  ELSE IF Abs(rs[b.row] - rs[a.row]) > 0 THEN rs[b.row] - rs[a.row]
  ELSE a.row - b.row

(* First element of the stable sort of cells by Compare *)
SortedFirst(cells, rs) ==
  cells[CHOOSE idx \in 1..Len(cells) :
          /\ \A e \in 1..Len(cells) : Compare(cells[e], cells[idx], rs) >= 0
          /\ \A e \in 1..(idx - 1) : Compare(cells[e], cells[idx], rs) > 0]

FillFallback(st, mcs) ==
  LET Available(cell) == /\ Positive(st.remainingSupply[cell.row])
                         /\ Positive(st.remainingDemand[cell.col])
                         /\ <<cell.row, cell.col>> \notin st.processedCells
      sortedCells == SelectSeq(mcs, Available)
  IN IF Len(sortedCells) > 0
     THEN LET cell == SortedFirst(sortedCells, st.remainingSupply)
          IN FillCell(st, cell,
                      FillAmount(st.remainingSupply[cell.row], st.remainingDemand[cell.col]),
                      "fallback")
     ELSE st

RECURSIVE FillPasses(_, _, _)
FillPasses(st, mcs, pass) ==
  IF pass = maxPasses THEN st
  ELSE LET s1 == FillColumns([st EXCEPT !.changed = FALSE], mcs, 0)
           s2 == FillRows(s1, mcs, 0)
           s3 == IF ~s2.changed THEN FillFallback(s2, mcs) ELSE s2
       IN IF ~s3.changed THEN s3 ELSE FillPasses(s3, mcs, pass + 1)

buildConditionalOptimalAllocation(cur, sup, dem, itn) ==
  LET mcs == MinCells(cur, sup, itn)
      st == FillPasses([allocation |-> [i \in DOMAIN sup |-> Fill(Len0(dem), 0)],
                        remainingSupply |-> sup,
                        remainingDemand |-> dem,
                        processedCells |-> {},
                        fills |-> <<>>,
                        changed |-> FALSE], mcs, 0)
  IN [allocation |-> st.allocation, minCells |-> mcs, fills |-> st.fills]

----------------------------------------------------------------------------
(* DifferentialRentSolver: isFeasible, determineRowTypes,                  *)
(* calculateMinimumRent, updateCosts, calculateCost                        *)

RowSum(a, i) == Sum(a[i])
ColumnSum(a, j) == ColSumTo(a, j, Len0(a))

DiffersSigned(sum, target) == sum - target > 0
Differs(sum, target) == Abs(sum - target) > 0

isFeasible(a, sup, dem) ==
  /\ \A i \in DOMAIN sup : ~Differs(RowSum(a, i), sup[i])
  /\ \A j \in DOMAIN dem : ~Differs(ColumnSum(a, j), dem[j])

RECURSIVE ColumnMinFrom(_, _, _, _)
ColumnMinFrom(cur, j, i, acc) ==
  IF i = Len0(cur) THEN acc
  ELSE ColumnMinFrom(cur, j, i + 1,
                     IF acc = Null THEN Val(cur[i][j]) ELSE Val(Min(Num(acc), cur[i][j])))

ColumnMin(cur, j) == Num(ColumnMinFrom(cur, j, 0, Null))

IsDeficitAnyColumn(a, cur, dem, i) ==
  \E j \in DOMAIN dem : ColumnSum(a, j) < dem[j]

IsDeficit(a, cur, dem, i) ==
  \E j \in DOMAIN dem :
     /\ ColumnSum(a, j) < dem[j]
     /\ Abs(cur[i][j] - ColumnMin(cur, j)) = 0

RECURSIVE RowTypesFrom(_, _, _, _, _, _)
RowTypesFrom(a, cur, sup, dem, i, acc) ==
  IF i = Len0(sup) THEN acc
  ELSE LET remaining == sup[i] - RowSum(a, i)
       IN IF Positive(remaining)
          THEN RowTypesFrom(a, cur, sup, dem, i + 1,
                            [acc EXCEPT !.surplus = Append(@, i)])
          ELSE IF Abs(remaining) = 0
          THEN IF IsDeficit(a, cur, dem, i)
               THEN RowTypesFrom(a, cur, sup, dem, i + 1,
                                 [acc EXCEPT !.deficit = Append(@, i)])
               ELSE RowTypesFrom(a, cur, sup, dem, i + 1,
                                 [acc EXCEPT !.surplus = Append(@, i)])
          ELSE RowTypesFrom(a, cur, sup, dem, i + 1, acc)

determineRowTypes(a, cur, sup, dem) ==
  RowTypesFrom(a, cur, sup, dem, 0, [surplus |-> <<>>, deficit |-> <<>>])

HasDeficitMin(cur, deficit, j) ==
  \E idx \in 1..Len(deficit) : Abs(cur[deficit[idx]][j] - ColumnMin(cur, j)) = 0

RECURSIVE NearestSurplusFrom(_, _, _, _, _, _)
NearestSurplusFrom(cur, surplus, j, deficitMinCost, idx, acc) ==
  IF idx > Len(surplus) THEN acc
  ELSE LET cost == cur[surplus[idx]][j]
           difference == Abs(cost - deficitMinCost)
       IN IF cost >= deficitMinCost /\ (acc = Null \/ difference < Abs(Num(acc) - deficitMinCost))
          THEN NearestSurplusFrom(cur, surplus, j, deficitMinCost, idx + 1, Val(cost))
          ELSE NearestSurplusFrom(cur, surplus, j, deficitMinCost, idx + 1, acc)

(* The rent of column j: Null when it is not defined *)
ColumnRent(cur, surplus, deficit, j) ==
  IF ~HasDeficitMin(cur, deficit, j) THEN Null
  ELSE LET deficitMinCost == ColumnMin(cur, j)
           nearestSurplusCost == NearestSurplusFrom(cur, surplus, j, deficitMinCost, 1, Null)
       IN IF nearestSurplusCost # Null
          THEN Val(Num(nearestSurplusCost) - deficitMinCost)
          ELSE Null

RECURSIVE MinimumRentFrom(_, _, _, _, _)
MinimumRentFrom(cur, surplus, deficit, j, acc) ==
  IF j = Cols(cur) THEN acc
  ELSE LET rent == ColumnRent(cur, surplus, deficit, j)
       IN MinimumRentFrom(cur, surplus, deficit, j + 1,
            IF rent = Null THEN acc
            ELSE IF acc = Null THEN rent
            ELSE Val(Min(Num(acc), Num(rent))))

(* Null stands for Infinity *)
calculateMinimumRent(cur, surplus, deficit) ==
  MinimumRentFrom(cur, surplus, deficit, 0, Null)

InSeq(s, x) == \E idx \in 1..Len(s) : s[idx] = x

RaisesTariffs(rent) == Positive(rent)

updateCostsLowered(cur, deficitRows, rent) ==
  [i \in DOMAIN cur |-> [j \in DOMAIN cur[i] |->
     IF InSeq(deficitRows, i) THEN cur[i][j] - rent ELSE cur[i][j]]]

updateCosts(cur, deficitRows, rent) ==
  [i \in DOMAIN cur |-> [j \in DOMAIN cur[i] |->
     IF InSeq(deficitRows, i) THEN cur[i][j] + rent ELSE cur[i][j]]]

CostBasisCurrent(dataC, currentC) == currentC
CostBasis(dataC, currentC) == dataC

calculateCost(a, c) ==
  Sum([i \in DOMAIN a |-> Sum([j \in DOMAIN a[i] |-> a[i][j] * c[i][j]])])

----------------------------------------------------------------------------
(* DifferentialRentMethod.solve and DifferentialRentSolver.solve *)

DataIsBalanced(sup, dem) == Abs(Sum(sup) - Sum(dem)) = 0

DrSolveBegin ==
  /\ pc = "drSolve"
  /\ IF ~DataIsBalanced(dataSupplies, dataDemands)
     THEN /\ drOutcome' = "unbalanced"
          /\ pc' = "done"
          /\ UNCHANGED <<currentCosts, drIteration>>
     ELSE /\ currentCosts' = dataCosts
          /\ drIteration' = 1
          /\ pc' = "drLoop"
          /\ UNCHANGED drOutcome
  /\ UNCHANGED <<solverVars, plan, initVars, degVars, modiVars, dataCosts,
                 dataSupplies, dataDemands, iterationNumber, allocation, fills,
                 minCells, rowTypes, minRent, drResult>>

DrLoopConditionStrict(it) == it < DR_MAX_ITERATIONS
DrLoopCondition(it) == it <= DR_MAX_ITERATIONS

DrIteration ==
  /\ pc = "drLoop"
  /\ DrLoopCondition(drIteration)
  /\ iterationNumber' = drIteration
  /\ LET built == buildConditionalOptimalAllocation(currentCosts, dataSupplies,
                                                    dataDemands, drIteration)
         a == built.allocation
     IN /\ allocation' = a
        /\ fills' = built.fills
        /\ minCells' = built.minCells
        /\ IF isFeasible(a, dataSupplies, dataDemands)
           THEN /\ drResult' = [allocations |-> a, totalCost |-> calculateCost(a, CostBasis(dataCosts, currentCosts))]
                /\ drOutcome' = "feasible"
                /\ pc' = "done"
                /\ UNCHANGED <<currentCosts, drIteration, rowTypes, minRent>>
           ELSE LET rt == determineRowTypes(a, currentCosts, dataSupplies, dataDemands)
                    rent == calculateMinimumRent(currentCosts, rt.surplus, rt.deficit)
                IN /\ rowTypes' = rt
                   /\ minRent' = rent
                   /\ IF rent = Null
                      THEN /\ drOutcome' = "rentUndefined"
                           /\ pc' = "done"
                           /\ UNCHANGED <<currentCosts, drIteration, drResult>>
                      ELSE /\ currentCosts' = IF RaisesTariffs(Num(rent))
                                              THEN updateCosts(currentCosts, rt.deficit, Num(rent))
                                              ELSE currentCosts
                           /\ drIteration' = drIteration + 1
                           /\ IF ~DrLoopCondition(drIteration + 1)
                              THEN /\ drOutcome' = "maxIterations"
                                   /\ pc' = "done"
                              ELSE UNCHANGED <<drOutcome, pc>>
                           /\ UNCHANGED drResult
  /\ UNCHANGED <<solverVars, plan, initVars, degVars, modiVars, dataCosts,
                 dataSupplies, dataDemands>>

----------------------------------------------------------------------------

Next ==
  \/ SolveBegin
  \/ InitialShip
  \/ InitialReturn
  \/ CheckDegeneracy
  \/ HandleDegeneracyStep
  \/ ModiIteration
  \/ DrSolveBegin
  \/ DrIteration

Spec == Init /\ [][Next]_vars

----------------------------------------------------------------------------
(* Properties *)

Rows == 0..(m - 1)
Columns == 0..(n - 1)
InputRows == DOMAIN originalSupplies
InputColumns == DOMAIN originalDemands

PlanRowSum(p, i) == Sum([j \in DOMAIN p[i] |-> IF p[i][j] # Null THEN Num(p[i][j]) ELSE 0])
PlanColSum(p, j) == Sum([i \in DOMAIN p |-> IF p[i][j] # Null THEN Num(p[i][j]) ELSE 0])

PlanFeasible ==
  /\ \A i \in Rows : PlanRowSum(plan, i) = supplies[i]
  /\ \A j \in Columns : PlanColSum(plan, j) = demands[j]
  /\ \A i \in Rows : \A j \in Columns : plan[i][j] # Null => Num(plan[i][j]) >= 0

AfterInitialPlan == pc \in {"checkDegeneracy", "handleDegeneracy", "optimize",
                            "drSolve", "drLoop", "done"}
AfterOptimize == pc \in {"drSolve", "drLoop", "done"}
Reallocated == theta # Null

\* C1: after the constructor has run checkAndBalance, the sum of supplies
\* equals the sum of demands.
C1_BalanceInvariant == Sum(supplies) = Sum(demands)

C1_Witness ==
  /\ ~isBalanced
  /\ Sum(originalSupplies) > Sum(originalDemands)
  /\ Len0(demands) = Len0(originalDemands) + 1

\* C2: checkAndBalance adds at most one dummy line: a dummy supplier with
\* supply = deficit and zero costs when supply < demand, a dummy consumer with
\* demand = excess and zero costs when supply > demand, nothing when the
\* totals are equal; the two dummy flags are never both set and the original
\* supplies, demands and costs are kept in the first M rows and N columns.
C2_AtMostOneDummyLine ==
  LET totalSupply == Sum(originalSupplies)
      totalDemand == Sum(originalDemands)
      M == Len0(originalSupplies)
      N == Len0(originalDemands)
  IN /\ totalSupply < totalDemand =>
          /\ m = M + 1 /\ n = N
          /\ DOMAIN supplies = 0..M /\ DOMAIN demands = 0..(N - 1)
          /\ DOMAIN costs = 0..M
          /\ supplies[M] = totalDemand - totalSupply
          /\ DOMAIN costs[M] = 0..(N - 1)
          /\ \A j \in 0..(N - 1) : costs[M][j] = 0
          /\ isSupplyDummy /\ ~isDemandDummy
     /\ totalSupply > totalDemand =>
          /\ m = M /\ n = N + 1
          /\ DOMAIN supplies = 0..(M - 1) /\ DOMAIN demands = 0..N
          /\ DOMAIN costs = 0..(M - 1)
          /\ demands[N] = totalSupply - totalDemand
          /\ \A i \in 0..(M - 1) : DOMAIN costs[i] = 0..N /\ costs[i][N] = 0
          /\ isDemandDummy /\ ~isSupplyDummy
     /\ totalSupply = totalDemand =>
          /\ m = M /\ n = N
          /\ costs = inCosts
          /\ supplies = originalSupplies /\ demands = originalDemands
          /\ ~isSupplyDummy /\ ~isDemandDummy
     /\ ~(isSupplyDummy /\ isDemandDummy)
     /\ \A i \in InputRows : supplies[i] = originalSupplies[i]
     /\ \A j \in InputColumns : demands[j] = originalDemands[j]
     /\ \A i \in InputRows : \A j \in InputColumns : costs[i][j] = inCosts[i][j]

C2_Witness ==
  /\ isSupplyDummy
  /\ m = Len0(originalSupplies) + 1
  /\ supplies[m - 1] > 0

\* C3: the plan is feasible at every phase boundary of solve(): after
\* findInitialPlan returns, after handleDegeneracy and after every completed
\* reallocatePlan, row sums equal supplies, column sums equal demands and every
\* non-null cell is >= 0.
C3_FeasibleAtPhaseBoundaries == AfterInitialPlan => PlanFeasible

C3_Witness ==
  /\ pc = "optimize"
  /\ Reallocated
  /\ Num(theta) > 0
  /\ missingCells > 0

\* C4: after checkDegeneracy/handleDegeneracy returns, the plan has m+n-1
\* non-null cells unless the resolver reported that no fictitious allocation
\* could be added without creating a cycle.
C4_BasisSize ==
  (pc = "optimize" /\ iteration = 1) => (degWarning \/ FilledCount(plan) = m + n - 1)

C4_Witness ==
  /\ pc = "optimize"
  /\ iteration = 1
  /\ missingCells > 1
  /\ ~degWarning

\* C5: when optimizePlanPotentials ends through its OPTIMAL branch, the
\* potentials of that last iteration satisfy u[i]+v[j]-cost[i][j] <= 0 for
\* every null cell of the final plan.
C5_OptimalityCertificate ==
  outcome = "optimal" =>
    \A i \in Rows : \A j \in Columns :
      plan[i][j] = Null => u[i] + v[j] - costs[i][j] <= 0

C5_Witness ==
  /\ outcome = "optimal"
  /\ Reallocated
  /\ \E i \in Rows : \E j \in Columns :
       plan[i][j] = Null /\ u[i] + v[j] - costs[i][j] < 0

\* C6: the total cost of the plan never increases across MODI iterations: the
\* cost after each reallocatePlan is <= the cost before it.
C6_CostNonIncreasing ==
  [][pc = "optimize" =>
       calculateTotalCost(plan', costs) <= calculateTotalCost(plan, costs)]_vars

C6_Witness ==
  /\ AfterOptimize
  /\ iteration = 3
  /\ Num(theta) > 0

\* C7: when the differential rent solver returns a result and the MODI
\* pipeline ends as OPTIMAL, the differential rent total cost equals the total
\* cost of the final MODI plan.
C7_SameOptimum ==
  (pc = "done" /\ drOutcome = "feasible" /\ outcome = "optimal") =>
     drResult.totalCost = calculateTotalCost(plan, costs)

C7_Witness ==
  /\ pc = "done"
  /\ drOutcome = "feasible"
  /\ outcome = "optimal"
  /\ Reallocated
  /\ iterationNumber >= 3

\* C8: every entry of the working tariff table currentCosts is non-decreasing
\* from one iteration to the next, is only changed by adding a rent > 0, and so
\* never falls below the original cost.
C8_TariffsMonotone ==
  [][pc = "drLoop" =>
       /\ \A i \in DOMAIN currentCosts : \A j \in DOMAIN currentCosts[i] :
            /\ currentCosts'[i][j] >= currentCosts[i][j]
            /\ currentCosts'[i][j] >= dataCosts[i][j]
       /\ currentCosts' # currentCosts =>
            /\ Num(minRent') > 0
            /\ \A i \in DOMAIN currentCosts : \A j \in DOMAIN currentCosts[i] :
                 currentCosts'[i][j] \in {currentCosts[i][j],
                                          currentCosts[i][j] + Num(minRent')}]_vars

C8_Witness ==
  /\ pc = "drLoop"
  /\ \E i \in DOMAIN currentCosts : \E j \in DOMAIN currentCosts[i] :
       currentCosts[i][j] > dataCosts[i][j]

\* C9: a non-null result of the differential rent solver is feasible: every
\* row sum equals the supply, every column sum the demand, all entries >= 0.
C9_ResultFeasible ==
  drOutcome = "feasible" =>
    /\ \A i \in DOMAIN dataSupplies : RowSum(drResult.allocations, i) = dataSupplies[i]
    /\ \A j \in DOMAIN dataDemands : ColumnSum(drResult.allocations, j) = dataDemands[j]
    /\ \A i \in DOMAIN dataSupplies : \A j \in DOMAIN dataDemands :
         drResult.allocations[i][j] >= 0

C9_Witness ==
  /\ drOutcome = "feasible"
  /\ iterationNumber = 2
  /\ \E i \in DOMAIN dataSupplies : \E j \in DOMAIN dataDemands :
       drResult.allocations[i][j] > 0

\* C10: the returned totalCost is the sum of allocation[i][j] * costs[i][j]
\* over the original cost matrix; data.costs is never modified, whatever
\* rents have been added to currentCosts.
C10_CostOnOriginalTariffs ==
  /\ dataCosts = inCosts
  /\ drOutcome = "feasible" =>
       drResult.totalCost =
         Sum([i \in InputRows |->
                Sum([j \in InputColumns |-> drResult.allocations[i][j] * inCosts[i][j]])])

C10_Witness ==
  /\ drOutcome = "feasible"
  /\ currentCosts # dataCosts
  /\ drResult.totalCost > 0

AllocationFeasible(a) ==
  /\ \A i \in DOMAIN dataSupplies : RowSum(a, i) = dataSupplies[i]
  /\ \A j \in DOMAIN dataDemands : ColumnSum(a, j) = dataDemands[j]

NoColumnRent(cur, rt) ==
  \A j \in DOMAIN cur[0] : ColumnRent(cur, rt.surplus, rt.deficit, j) = Null

\* C11: DifferentialRentSolver.solve terminates after at most 50 iterations:
\* while it loops the iteration counter stays within 1..50 and every pass
\* either returns or increases it by one.  It returns null exactly when an
\* infeasible pass finds no column with a finite rent, or when the 50th pass
\* is infeasible; otherwise it returns the allocation of the first feasible
\* pass.
C11_DrTermination ==
  [][/\ pc' = "drLoop" => drIteration' \in 1..DR_MAX_ITERATIONS
     /\ pc = "drLoop" =>
          /\ iterationNumber' = drIteration
          /\ \/ /\ pc' = "done"
                /\ AllocationFeasible(allocation')
                /\ drOutcome' = "feasible"
                /\ drResult' # Null
                /\ drResult'.allocations = allocation'
             \/ /\ pc' = "done"
                /\ ~AllocationFeasible(allocation')
                /\ NoColumnRent(currentCosts, rowTypes')
                /\ drOutcome' = "rentUndefined"
                /\ drResult' = Null
             \/ /\ pc' = "done"
                /\ ~AllocationFeasible(allocation')
                /\ ~NoColumnRent(currentCosts, rowTypes')
                /\ drIteration = DR_MAX_ITERATIONS
                /\ drOutcome' = "maxIterations"
                /\ drResult' = Null
             \/ /\ pc' = "drLoop"
                /\ ~AllocationFeasible(allocation')
                /\ ~NoColumnRent(currentCosts, rowTypes')
                /\ drIteration < DR_MAX_ITERATIONS
                /\ drIteration' = drIteration + 1
                /\ drResult' = Null]_vars

C11_Witness ==
  /\ pc = "done"
  /\ drOutcome = "maxIterations"
  /\ iterationNumber = DR_MAX_ITERATIONS
  /\ drResult = Null
  /\ currentCosts # dataCosts
PositiveDeltaAt(cell) ==
  /\ cell # Null
  /\ plan[cell.row][cell.col] = Null
  /\ u'[cell.row] + v'[cell.col] - costs[cell.row][cell.col] > 0

\* C12: optimizePlanPotentials terminates: while it loops its iteration
\* counter stays within 1..10 and every pass either ends the optimizer or
\* applies one reallocation and increases the counter by one, so at most 10
\* reallocations are applied.  It ends in exactly one of three outcomes:
\* optimal (no null cell has a positive delta), cycle not found, or maximum
\* iterations reached, the last only after exactly 10 reallocations.
C12_ModiTermination ==
  [][/\ pc' = "optimize" => iteration' \in 1..MAX_ITERATIONS /\ outcome' = "none"
     /\ pc = "optimize" =>
          \/ /\ pc' = "drSolve"
             /\ outcome' = "optimal"
             /\ \A i \in Rows : \A j \in Columns :
                  plan[i][j] = Null => u'[i] + v'[j] - costs[i][j] <= 0
             /\ plan' = plan
             /\ iteration' = iteration
          \/ /\ pc' = "drSolve"
             /\ outcome' = "cycleNotFound"
             /\ PositiveDeltaAt(enteringCell')
             /\ plan' = plan
             /\ iteration' = iteration
          \/ /\ pc' = "optimize"
             /\ PositiveDeltaAt(enteringCell')
             /\ plan' # plan
             /\ iteration' = iteration + 1
          \/ /\ pc' = "drSolve"
             /\ outcome' = "maxIterations"
             /\ PositiveDeltaAt(enteringCell')
             /\ plan' # plan
             /\ iteration = MAX_ITERATIONS
             /\ iteration' = MAX_ITERATIONS + 1]_vars

C12_Witness ==
  /\ pc = "drSolve"
  /\ outcome = "maxIterations"
  /\ iteration = MAX_ITERATIONS + 1
IsScenario1 ==
  /\ inCosts = Scenario1.costs
  /\ originalSupplies = Scenario1.supplies
  /\ originalDemands = Scenario1.demands

\* C13: for costs [[1,2],[3,4]], supplies [10,10], demands [10,10] the
\* initializer produces exactly (0,0)=10 and (1,1)=10, the degeneracy resolver
\* adds a zero at (0,1) and nowhere else, the first MODI iteration takes row 0
\* as reference and computes u=[0,2], v=[1,2], no reallocation is performed,
\* the optimizer ends as optimal and the final total cost is 50.
C13_Scenario1 ==
  IsScenario1 =>
    /\ pc = "checkDegeneracy" =>
          plan = FromRows(<<<<Val(10), Null>>, <<Null, Val(10)>>>>)
    /\ (pc = "optimize" \/ AfterOptimize) =>
          /\ plan = FromRows(<<<<Val(10), Val(0)>>, <<Null, Val(10)>>>>)
          /\ missingCells = 1
          /\ ~degWarning
    /\ AfterOptimize =>
          /\ calculatePotentials(plan, costs).baseRow = 0
          /\ u = FromSeq(<<0, 2>>)
          /\ v = FromSeq(<<1, 2>>)
          /\ ~Reallocated
          /\ iteration = 1
          /\ outcome = "optimal"
          /\ calculateTotalCost(plan, costs) = 50

C13_Witness ==
  /\ IsScenario1
  /\ pc = "done"
  /\ outcome = "optimal"
  /\ plan[0][1] = Val(0)
(* The bipartite graph of a plan: a vertex per row and per column, an edge *)
(* per non-null cell                                                      *)
Vertices(p) == ({"row"} \X DOMAIN p) \cup ({"col"} \X DOMAIN p[0])

Adjacent(p, a, b) ==
  \/ a[1] = "row" /\ b[1] = "col" /\ p[a[2]][b[2]] # Null
  \/ a[1] = "col" /\ b[1] = "row" /\ p[b[2]][a[2]] # Null

RECURSIVE ReachFrom(_, _)
ReachFrom(p, set) ==
  LET next == set \cup {b \in Vertices(p) : \E a \in set : Adjacent(p, a, b)}
  IN IF next = set THEN set ELSE ReachFrom(p, next)

Components(p) == {ReachFrom(p, {x}) : x \in Vertices(p)}
Connected(p) == Cardinality(Components(p)) = 1
IsForest(p) == FilledCount(p) = Cardinality(Vertices(p)) - Cardinality(Components(p))
IsSpanningTree(p) ==
  /\ FilledCount(p) = Len0(p) + Len0(p[0]) - 1
  /\ IsForest(p)
  /\ Connected(p)

\* C15: at the start of every MODI iteration reached by solve() the non-null
\* cells of the plan form a spanning tree of the row/column graph: exactly
\* m+n-1 cells, no cycle, every row and column connected.
C15_BasisIsSpanningTree ==
  pc = "optimize" =>
    /\ FilledCount(plan) = m + n - 1
    /\ IsForest(plan)
    /\ Connected(plan)

C15_Witness ==
  /\ pc = "optimize"
  /\ iteration = 3
  /\ missingCells > 0
  /\ m + n > 3
----------------------------------------------------------------------------
(* optimizePlanPotentials applied to a given plan: the optimizer is started *)
(* on the costs and the plan it is handed, whatever produced them.  The     *)
(* plans are the acyclic ones, spanning trees and disconnected bases alike, *)
(* over the bounded shapes, and over 3x3 with two cost tables.              *)

CellValues == {Null} \cup {Val(q) : q \in 0..MaxQty}

BoundedPlans(rows, cols) ==
  {p \in [0..(rows - 1) -> [0..(cols - 1) -> CellValues]] : IsForest(p)}

BoundedOptimizerInputs ==
  UNION {{[costs |-> c, plan |-> p] :
            c \in [0..(sh[1] - 1) -> [0..(sh[2] - 1) -> 0..MaxCost]],
            p \in BoundedPlans(sh[1], sh[2])} : sh \in Shapes}

LargerCosts ==
  {FromRows(<<<<1, 2, 0>>, <<2, 0, 1>>, <<0, 1, 2>>>>),
   FromRows(<<<<4, 9, 1>>, <<2, 5, 5>>, <<2, 5, 10>>>>)}

LargerPlans == {p \in [0..2 -> [0..2 -> {Null, Val(1)}]] : IsForest(p)}

(* Scenario1 with the plan of the initializer, degeneracy resolution skipped *)
Scenario1Unresolved ==
  [costs |-> Scenario1.costs,
   plan |-> FromRows(<<<<Val(10), Null>>, <<Null, Val(10)>>>>)]

OptimizerInputs ==
  BoundedOptimizerInputs
    \cup {[costs |-> c, plan |-> p] : c \in LargerCosts, p \in LargerPlans}
    \cup {Scenario1Unresolved}

(* The solver's state with the given costs and plan, about to run step at *)
StartOn(inp, at) ==
    LET rowSums == [i \in DOMAIN inp.plan |-> PlanRowSum(inp.plan, i)]
        colSums == [j \in DOMAIN inp.plan[0] |-> PlanColSum(inp.plan, j)]
    IN /\ pc = at
       /\ inCosts = inp.costs
       /\ originalSupplies = rowSums
       /\ originalDemands = colSums
       /\ costs = inp.costs
       /\ supplies = rowSums
       /\ demands = colSums
       /\ m = Len0(inp.plan)
       /\ n = Cols(inp.plan)
       /\ isBalanced = TRUE
       /\ isSupplyDummy = FALSE
       /\ isDemandDummy = FALSE
       /\ plan = inp.plan
       /\ ip = Null
       /\ currentSupplies = Null
       /\ currentDemands = Null
       /\ lastShip = Null
       /\ k = 0
       /\ missingCells = 0
       /\ degWarning = FALSE
       /\ iteration = 1
       /\ u = Null
       /\ v = Null
       /\ enteringCell = Null
       /\ cycle = Null
       /\ theta = Null
       /\ outcome = "none"
       /\ dataCosts = inp.costs
       /\ dataSupplies = rowSums
       /\ dataDemands = colSums
       /\ drIteration = 1
       /\ drOutcome = "none"
       /\ currentCosts = Null
       /\ iterationNumber = 0
       /\ allocation = Null
       /\ fills = <<>>
       /\ minCells = <<>>
       /\ rowTypes = Null
       /\ minRent = Null
       /\ drResult = Null

OptimizerInit == \E inp \in OptimizerInputs : StartOn(inp, "optimize")

OptimizerNext == ModiIteration

OptimizerSpec == OptimizerInit /\ [][OptimizerNext]_vars

(* What the pass starting in this state chooses *)
ChosenEnteringCell ==
  LET pot == calculatePotentials(plan, costs)
  IN findMaxDelta(plan, calculateDeltas(plan, costs, pot.u, pot.v))

CycleMissing ==
  /\ ~IsOptimal(ChosenEnteringCell)
  /\ findCycle(plan, ChosenEnteringCell.enteringCell) = Null

\* C14: when findCycle returns null for the chosen entering cell,
\* optimizePlanPotentials stops at once: no reallocation is applied, the plan
\* is the plan of the start of that iteration with the entering cell still
\* null, and the cycle-not-found outcome is reported, not optimal.
C14_CycleNotFoundStops ==
  [][(pc = "optimize" /\ CycleMissing) =>
       /\ pc' = "drSolve"
       /\ outcome' = "cycleNotFound"
       /\ plan' = plan
       /\ enteringCell' = ChosenEnteringCell.enteringCell
       /\ plan'[enteringCell'.row][enteringCell'.col] = Null
       /\ iteration' = iteration
       /\ theta' = theta]_vars

C14_Witness ==
  /\ pc = "drSolve"
  /\ outcome = "cycleNotFound"
  /\ FilledCount(plan) > 1
  /\ plan[enteringCell.row][enteringCell.col] = Null
DisconnectedBasis(p) == IsForest(p) /\ FilledCount(p) < Len0(p) + Len0(p[0]) - 1

\* C19: the optimizer run on a plan whose basis is disconnected (acyclic with
\* fewer than m+n-1 non-null cells) ends with the cycle-not-found outcome, not
\* with optimal and not with a reallocation.
C19_DisconnectedEndsCycleNotFound ==
  DisconnectedBasis(plan) =>
    /\ outcome # "optimal"
    /\ ~Reallocated
    /\ pc # "optimize" => outcome = "cycleNotFound"
(* Odd positions of the code's cycle are the even indices of the sequence *)
OddPositions(cyc) == {idx \in 1..Len(cyc) : idx % 2 = 0}
At(p, cell) == p[cell.row][cell.col]
AllCells(p) == {Cell(i, j) : i \in DOMAIN p, j \in DOMAIN p[0]}
ReallocationStep == pc = "optimize" /\ iteration' = iteration + 1

\* C16: every reallocatePlan call removes exactly one cell from the basis and
\* adds exactly one, the entering cell, so the number of non-null cells is
\* unchanged; the cell set to null is the first odd-position cell of the cycle
\* whose value is 0 after subtracting theta, and every other odd-position
\* cell that reached 0 stays in the plan as an explicit zero.
C16_OneCellLeaves ==
  [][ReallocationStep =>
       LET cyc == cycle'
           zeroed == {idx \in OddPositions(cyc) : Num(At(plan, cyc[idx])) - Num(theta') = 0}
           first == CHOOSE idx \in zeroed : \A other \in zeroed : idx <= other
           removed == {c \in AllCells(plan) : At(plan, c) # Null /\ At(plan', c) = Null}
           added == {c \in AllCells(plan) : At(plan, c) = Null /\ At(plan', c) # Null}
       IN /\ zeroed # {}
          /\ removed = {cyc[first]}
          /\ added = {enteringCell'}
          /\ cyc[1] = enteringCell'
          /\ FilledCount(plan') = FilledCount(plan)
          /\ \A idx \in zeroed \ {first} : At(plan', cyc[idx]) = Val(0)]_vars

C16_Witness ==
  /\ Reallocated
  /\ Num(theta) > 0
  /\ At(plan, cycle[1]) = theta
  /\ \E idx \in OddPositions(cycle) : At(plan, cycle[idx]) = Val(0)
\* C17 as stated: in every reallocation performed by solve() the amount theta
\* is strictly positive.
C17_ThetaPositive == Reallocated => Num(theta) > 0

\* C17 as amended: in every reallocation performed by solve() theta, the
\* minimum of the plan values at the odd positions of the cycle, is >= 0, and
\* the total cost falls by exactly theta times the delta of the entering cell;
\* theta is 0, and the cost unchanged, exactly when an odd-position cell of
\* the cycle is a zero-valued basic cell.
C17_ThetaNonNegative ==
  [][ReallocationStep =>
       LET cyc == cycle'
           amount == Num(theta')
           delta == u'[enteringCell'.row] + v'[enteringCell'.col]
                      - costs[enteringCell'.row][enteringCell'.col]
       IN /\ amount >= 0
          /\ delta > 0
          /\ \A idx \in OddPositions(cyc) : Num(At(plan, cyc[idx])) >= amount
          /\ \E idx \in OddPositions(cyc) : Num(At(plan, cyc[idx])) = amount
          /\ calculateTotalCost(plan', costs) = calculateTotalCost(plan, costs) - amount * delta
          /\ amount = 0 <=> \E idx \in OddPositions(cyc) : At(plan, cyc[idx]) = Val(0)]_vars

C17_Witness ==
  /\ Reallocated
  /\ Num(theta) = 0
  /\ At(plan, cycle[1]) = Val(0)
  /\ iteration > 2
(* The lowest-index row among those with the most non-null cells *)
FullestRow(p) ==
  CHOOSE i \in DOMAIN p :
    /\ \A r \in DOMAIN p : RowCount(p, r) <= RowCount(p, i)
    /\ \A r \in DOMAIN p : r < i => RowCount(p, r) < RowCount(p, i)

\* C18: for every plan whose non-null cells form a spanning tree,
\* calculatePotentials returns u, v with u[baseRow] = 0, baseRow being the
\* lowest-index row with the most non-null cells, and u[i] + v[j] = cost[i][j]
\* for every non-null cell; the propagation passes reach every potential, so
\* the default of 0 is never used.
C18_PotentialsOnTree ==
  [][(pc = "optimize" /\ IsSpanningTree(plan)) =>
       /\ calculatePotentials(plan, costs).baseRow = FullestRow(plan)
       /\ calculatePotentials(plan, costs).assigned
       /\ u'[FullestRow(plan)] = 0
       /\ \A i \in Rows : \A j \in Columns :
            plan[i][j] # Null => u'[i] + v'[j] = costs[i][j]]_vars

C18_Witness ==
  /\ outcome = "optimal"
  /\ iteration = 1
  /\ m = 3
  /\ n = 3
  /\ IsSpanningTree(plan)
  /\ FullestRow(plan) = 2
  /\ u[0] # 0
RowMajor(cell) == cell.row * n + cell.col
OpenCells(p) == {c \in AllCells(p) : At(p, c) = Null}
ShipmentStep == pc = "findInitialPlan" /\ pc' = "findInitialPlan"

\* C20: in each step of findInitialPlan the chosen cell has the smallest cost
\* among the cells that are neither filled nor closed, and is the first such
\* cell in row-major order when several share that cost; the amount written
\* into it is min(remaining supply of its row, remaining demand of its
\* column), and both remainders are then reduced by that amount.
C20_MinimumElementStep ==
  [][ShipmentStep =>
       LET chosen == Cell(lastShip'.row, lastShip'.col)
           amount == lastShip'.amount
       IN /\ chosen \in OpenCells(ip)
          /\ \A o \in OpenCells(ip) :
               /\ At(costs, o) >= At(costs, chosen)
               /\ At(costs, o) = At(costs, chosen) => RowMajor(o) >= RowMajor(chosen)
          /\ amount <= currentSupplies[chosen.row]
          /\ amount <= currentDemands[chosen.col]
          /\ amount \in {currentSupplies[chosen.row], currentDemands[chosen.col]}
          /\ At(ip', chosen) = Val(amount)
          /\ currentSupplies' =
               [currentSupplies EXCEPT ![chosen.row] = currentSupplies[chosen.row] - amount]
          /\ currentDemands' =
               [currentDemands EXCEPT ![chosen.col] = currentDemands[chosen.col] - amount]]_vars

C20_Witness ==
  /\ pc = "findInitialPlan"
  /\ lastShip # Null
  /\ lastShip.amount > 0
  /\ currentSupplies[lastShip.row] > 0
  /\ \E o \in OpenCells(ip) :
       /\ At(costs, o) = costs[lastShip.row][lastShip.col]
       /\ RowMajor(o) > RowMajor(Cell(lastShip.row, lastShip.col))
\* C21 as stated: each shipment of findInitialPlan closes exactly one line;
\* when it exhausts the row's supply and the column's demand at once, only the
\* row's open cells are closed and the column's other open cells stay open.
C21_ClosesExactlyOneLine ==
  [][ShipmentStep =>
       LET chosen == Cell(lastShip'.row, lastShip'.col)
       IN (currentSupplies'[chosen.row] = 0 /\ currentDemands'[chosen.col] = 0) =>
            \A o \in OpenCells(ip) :
              (o.col = chosen.col /\ o.row # chosen.row) => At(ip', o) = Null]_vars

\* C21 as amended: each shipment of findInitialPlan closes every line it
\* exhausts, and at least one: the row's open cells when the row's remaining
\* supply reaches 0, the column's open cells when the column's remaining demand
\* reaches 0, and both when both are exhausted at once; every other open cell
\* stays open and no filled or closed cell changes.
C21_ClosesExhaustedLines ==
  [][ShipmentStep =>
       LET chosen == Cell(lastShip'.row, lastShip'.col)
           rowDone == currentSupplies'[chosen.row] = 0
           colDone == currentDemands'[chosen.col] = 0
       IN /\ rowDone \/ colDone
          /\ \A o \in OpenCells(ip) \ {chosen} :
               At(ip', o) = IF (o.row = chosen.row /\ rowDone) \/ (o.col = chosen.col /\ colDone)
                            THEN Val(CLOSED) ELSE Null
          /\ \A o \in AllCells(ip) \ OpenCells(ip) : At(ip', o) = At(ip, o)]_vars

C21_Witness ==
  /\ pc = "findInitialPlan"
  /\ lastShip # Null
  /\ lastShip.amount > 0
  /\ currentSupplies[lastShip.row] = 0
  /\ currentDemands[lastShip.col] = 0
  /\ \E i \in Rows : /\ i # lastShip.row
                      /\ currentSupplies[i] > 0
                      /\ ip[i][lastShip.col] = Val(CLOSED)
----------------------------------------------------------------------------
(* checkDegeneracy and handleDegeneracy applied to a given plan: the same   *)
(* bounded acyclic plans, each taken as the plan the initializer left.      *)

ResolverInit == \E inp \in OptimizerInputs : StartOn(inp, "checkDegeneracy")

ResolverNext == CheckDegeneracy \/ HandleDegeneracyStep

ResolverSpec == ResolverInit /\ [][ResolverNext]_vars

WithZeroAt(p, cell) == [p EXCEPT ![cell.row][cell.col] = Val(0)]
AcyclicCandidates(p) == {o \in OpenCells(p) : IsForest(WithZeroAt(p, o))}

\* C22: for each missing basis slot handleDegeneracy sets to 0 the null cell
\* of least cost among the null cells whose addition keeps the non-null cells
\* acyclic, the first in row-major order when several have that cost; it
\* never picks a cell that closes a cycle and never skips a cheaper acyclic
\* candidate.
C22_CheapestAcyclicCell ==
  [][pc = "handleDegeneracy" =>
       IF AcyclicCandidates(plan) = {}
       THEN plan' = plan /\ degWarning'
       ELSE /\ k' = k + 1
            /\ k' <= missingCells
            /\ pc' = "optimize" <=> k' = missingCells
            /\ \E chosen \in AcyclicCandidates(plan) :
                 /\ plan' = WithZeroAt(plan, chosen)
                 /\ \A o \in AcyclicCandidates(plan) :
                      /\ At(costs, o) >= At(costs, chosen)
                      /\ At(costs, o) = At(costs, chosen) => RowMajor(o) >= RowMajor(chosen)]_vars

C22_Witness ==
  /\ k = 1
  /\ missingCells > 1
  /\ \E o \in OpenCells(plan) :
       /\ ~IsForest(WithZeroAt(plan, o))
       /\ \A z \in AllCells(plan) : At(plan, z) = Val(0) => At(costs, o) < At(costs, z)
  /\ \E z \in AllCells(plan) : At(plan, z) = Val(0)
  /\ \A z \in AllCells(plan) : At(plan, z) \in {Null, Val(0), Val(1)}
EvenPositions(cyc) == {idx \in 1..Len(cyc) : idx % 2 = 1}

(* A closed loop through the entering cell and non-null cells of p, moving  *)
(* along a row from every even position and along a column from every odd   *)
(* position                                                                  *)
CycleWellFormed(cyc, p, entering) ==
  /\ cyc # Null
  /\ Len(cyc) >= 4
  /\ Len(cyc) % 2 = 0
  /\ cyc[1] = entering
  /\ \A a \in 1..Len(cyc) : \A b \in 1..Len(cyc) : a # b => cyc[a] # cyc[b]
  /\ \A idx \in 2..Len(cyc) : At(p, cyc[idx]) # Null
  /\ \A idx \in 1..(Len(cyc) - 1) :
       IF idx \in EvenPositions(cyc)
       THEN cyc[idx].row = cyc[idx + 1].row /\ cyc[idx].col # cyc[idx + 1].col
       ELSE cyc[idx].col = cyc[idx + 1].col /\ cyc[idx].row # cyc[idx + 1].row
  /\ cyc[Len(cyc)].col = entering.col
  /\ \A i \in DOMAIN p :
       LET plus == {idx \in EvenPositions(cyc) : cyc[idx].row = i}
           minus == {idx \in OddPositions(cyc) : cyc[idx].row = i}
       IN Cardinality(plus) = Cardinality(minus) /\ Cardinality(plus) <= 1
  /\ \A j \in DOMAIN p[0] :
       LET plus == {idx \in EvenPositions(cyc) : cyc[idx].col = j}
           minus == {idx \in OddPositions(cyc) : cyc[idx].col = j}
       IN Cardinality(plus) = Cardinality(minus) /\ Cardinality(plus) <= 1

\* C23: when the basis is a spanning tree and the entering cell is null,
\* findCycle returns a sequence that starts with the entering cell, has even
\* length >= 4 with no repeated cell, consists otherwise of non-null cells,
\* moves along a row from each even position and along a column from each odd
\* position, and ends in the entering cell's column; so every row and column
\* it touches holds exactly one even-position and one odd-position cell.
C23_CycleShape ==
  (pc = "optimize" /\ IsSpanningTree(plan)) =>
    \A entering \in OpenCells(plan) :
      CycleWellFormed(findCycle(plan, entering), plan, entering)

C23_Witness ==
  /\ pc = "optimize"
  /\ IsSpanningTree(plan)
  /\ Reallocated
  /\ Len(cycle) = 6
  /\ \E entering \in OpenCells(plan) : Len(findCycle(plan, entering)) = 6
(* The rows holding the smallest tariff of column j in table cur *)
TiedRows(cur, j) == {i \in DOMAIN cur : \A r \in DOMAIN cur : cur[i][j] <= cur[r][j]}
CandidateRows(cells, j) == {cells[idx].row : idx \in {e \in 1..Len(cells) : cells[e].col = j}}
CandidateCount(cells, j) == Cardinality({e \in 1..Len(cells) : cells[e].col = j})

\* C24: in buildConditionalOptimalAllocation, on iteration 1 each column
\* contributes exactly one minimal-tariff candidate: among the rows tied for
\* the column minimum, the row with the largest supply, the lowest-index one
\* when supplies are equal too; on every iteration >= 2 each column
\* contributes every row tied for its minimum tariff.
C24_MinimalTariffCandidates ==
  [][pc = "drLoop" =>
       \A j \in DOMAIN dataDemands :
         LET tied == TiedRows(currentCosts, j)
             rows == CandidateRows(minCells', j)
         IN /\ CandidateCount(minCells', j) = Cardinality(rows)
            /\ IF drIteration = 1
               THEN \E r \in tied :
                      /\ rows = {r}
                      /\ \A t \in tied :
                           /\ dataSupplies[t] <= dataSupplies[r]
                           /\ dataSupplies[t] = dataSupplies[r] => t >= r
               ELSE rows = tied]_vars

C24_Witness ==
  /\ iterationNumber = 1
  /\ Cardinality(TiedRows(dataCosts, 0)) = 3
  /\ CandidateRows(minCells, 0) = {1}
  /\ dataSupplies[0] < dataSupplies[1]
  /\ dataSupplies[1] = dataSupplies[2]
SeqSet(sq) == {sq[idx] : idx \in 1..Len(sq)}
RowTypesCurrent == pc = "drLoop" /\ rowTypes # Null

(* Row i is fully allocated and holds the minimal tariff of a column whose *)
(* demand is not met                                                        *)
LinkedToUnmetColumn(a, cur, i) ==
  /\ RowSum(a, i) = dataSupplies[i]
  /\ \E j \in DOMAIN dataDemands :
       ColumnSum(a, j) < dataDemands[j] /\ i \in TiedRows(cur, j)

\* C25 as stated: determineRowTypes classifies a row as surplus only if it has
\* unallocated supply remaining.
C25_SurplusHasRemainingSupply ==
  RowTypesCurrent =>
    \A i \in SeqSet(rowTypes.surplus) : RowSum(allocation, i) < dataSupplies[i]

\* C25 as amended: determineRowTypes classifies a row as deficit exactly when
\* it is fully allocated and some column in which it holds the minimal tariff
\* still has unmet demand, and as surplus otherwise: when it has unallocated
\* supply remaining, or is fully allocated without such a column; every row
\* is placed in exactly one of the two lists, once.
C25_RowTypes ==
  [][(pc = "drLoop" /\ ~AllocationFeasible(allocation')) =>
       /\ \A i \in DOMAIN dataSupplies :
            /\ RowSum(allocation', i) <= dataSupplies[i]
            /\ i \in SeqSet(rowTypes'.deficit) <=>
                 LinkedToUnmetColumn(allocation', currentCosts, i)
            /\ i \in SeqSet(rowTypes'.surplus) <=>
                 ~LinkedToUnmetColumn(allocation', currentCosts, i)
       /\ Len(rowTypes'.surplus) + Len(rowTypes'.deficit) = Len0(dataSupplies)]_vars

C25_Witness ==
  /\ RowTypesCurrent
  /\ Len(rowTypes.deficit) > 0
  /\ \E i \in SeqSet(rowTypes.surplus) :
       RowSum(allocation, i) = dataSupplies[i] /\ dataSupplies[i] > 0
InfeasibleIteration == pc = "drLoop" /\ ~AllocationFeasible(allocation')

(* Columns whose minimal tariff lies in a deficit row and that have a surplus *)
(* row to compare with                                                       *)
RentColumns(cur, rt) ==
  {j \in DOMAIN dataDemands :
     /\ TiedRows(cur, j) \cap SeqSet(rt.deficit) # {}
     /\ rt.surplus # <<>>}
(* Smallest difference between a surplus-row tariff and the column minimum *)
RentOf(cur, rt, j) ==
  LET low == CHOOSE x \in {cur[i][j] : i \in DOMAIN cur} :
               \A i \in DOMAIN cur : x <= cur[i][j]
      gaps == {cur[r][j] - low : r \in SeqSet(rt.surplus)}
  IN CHOOSE g \in gaps : \A h \in gaps : g <= h
PositiveRents(cur, rt) ==
  {RentOf(cur, rt, j) : j \in RentColumns(cur, rt)} \ {0}

\* C26: the minimum rent returned by calculateMinimumRent is the minimum
\* positive rent over the columns with a defined rent; a column whose rent is
\* 0 does not determine the minimum when another column has a positive rent.
C26_MinimumPositiveRent ==
  [][InfeasibleIteration =>
       LET positive == PositiveRents(currentCosts, rowTypes')
       IN positive # {} =>
            /\ minRent' # Null
            /\ Num(minRent') \in positive
            /\ \A g \in positive : Num(minRent') <= g]_vars
\* C27: every plan returned by findInitialPlan in solve() has acyclic non-null
\* cells, at most m+n-1 of them; handleDegeneracy then finds an acyclic
\* candidate for every missing slot, and the branch that reports that no
\* fictitious allocation could be added is never reached.
C27_CandidateAlwaysFound ==
  /\ pc = "checkDegeneracy" => IsForest(plan) /\ FilledCount(plan) <= m + n - 1
  /\ pc = "handleDegeneracy" =>
       /\ IsForest(plan)
       /\ FilledCount(plan) = m + n - 1 - (missingCells - k)
       /\ BestCell(plan, costs) # Null
       /\ AcyclicCandidates(plan) # {}
  /\ ~degWarning

C27_Witness ==
  /\ pc = "handleDegeneracy"
  /\ k = 1
  /\ missingCells = 2
  /\ BestCell(plan, costs) # Null
  /\ \E o \in OpenCells(plan) : o \notin AcyclicCandidates(plan)
(* Amount placed in cell (i, j) by the first p fills of the pass *)
RECURSIVE PlacedBy(_, _, _, _)
PlacedBy(fs, p, i, j) ==
  IF p = 0 THEN 0
  ELSE PlacedBy(fs, p - 1, i, j)
         + (IF fs[p].row = i /\ fs[p].col = j THEN fs[p].amount ELSE 0)
PlacedInRow(fs, p, i) == Sum([j \in DOMAIN dataDemands |-> PlacedBy(fs, p, i, j)])
PlacedInColumn(fs, p, j) == Sum([i \in DOMAIN dataSupplies |-> PlacedBy(fs, p, i, j)])

\* C28: in every iteration of the differential rent solver, after each fill
\* of the allocation pass, all entries are >= 0, every row sum is <= its
\* supply and every column sum <= its demand; a positive amount is placed
\* only in a minimal-tariff candidate of its column under the current tariff
\* table, and no cell is filled twice in one iteration.
C28_AllocationPass ==
  [][pc = "drLoop" =>
       /\ \A p \in 0..Len(fills') :
            /\ \A i \in DOMAIN dataSupplies : \A j \in DOMAIN dataDemands :
                 PlacedBy(fills', p, i, j) >= 0
            /\ \A i \in DOMAIN dataSupplies :
                 PlacedInRow(fills', p, i) <= dataSupplies[i]
            /\ \A j \in DOMAIN dataDemands :
                 PlacedInColumn(fills', p, j) <= dataDemands[j]
       /\ \A i \in DOMAIN dataSupplies : \A j \in DOMAIN dataDemands :
            allocation'[i][j] = PlacedBy(fills', Len(fills'), i, j)
       /\ \A p \in 1..Len(fills') :
            /\ fills'[p].amount > 0
            /\ fills'[p].row \in TiedRows(currentCosts, fills'[p].col)
            /\ \E idx \in 1..Len(minCells') :
                 /\ minCells'[idx].row = fills'[p].row
                 /\ minCells'[idx].col = fills'[p].col
                 /\ minCells'[idx].cost = currentCosts[fills'[p].row][fills'[p].col]
            /\ \A q \in 1..Len(fills') :
                 (fills'[q].row = fills'[p].row /\ fills'[q].col = fills'[p].col)
                   => q = p]_vars

C28_Witness ==
  /\ pc = "drLoop"
  /\ iterationNumber >= 2
  /\ Len(fills) >= 3
  /\ \E p \in 1..Len(fills) : fills[p].how = "fallback"
  /\ \E p \in 1..Len(fills) : fills[p].how = "row"
  /\ \E i \in DOMAIN dataSupplies : RowSum(allocation, i) < dataSupplies[i]
(* The iteration before the current one was numbered 2 or more and ended *)
(* with a minimum rent of zero                                            *)
ZeroRentAfterSecond == pc = "drLoop" /\ drIteration >= 3 /\ minRent = Val(0)

\* C29: when an infeasible iteration k >= 2 of the differential rent solver
\* yields a minimum rent of zero, the tariff table stays as it is and every
\* later iteration rebuilds the same allocation: no iteration after it is
\* feasible and solve() returns null at the 50-iteration limit, although the
\* balanced instance has a feasible plan, which the potential method reports
\* as optimal.
C29_ZeroRentStalls ==
  /\ [][(pc = "drLoop" /\ drIteration >= 2 /\ minRent' = Val(0)
            /\ ~AllocationFeasible(allocation'))
          => currentCosts' = currentCosts]_vars
  /\ [][ZeroRentAfterSecond =>
          /\ allocation' = allocation
          /\ fills' = fills
          /\ currentCosts' = currentCosts
          /\ rowTypes' = rowTypes
          /\ minRent' = Val(0)
          /\ drIteration' = drIteration + 1
          /\ drResult' = drResult
          /\ drOutcome' # "feasible"
          /\ pc' = "done" <=> drIteration = DR_MAX_ITERATIONS
          /\ pc' = "done" => drOutcome' = "maxIterations"]_vars
  /\ [](ZeroRentAfterSecond =>
          /\ drResult = Null
          /\ supplies = dataSupplies /\ demands = dataDemands
          /\ PlanFeasible
          /\ outcome = "optimal")

C29_Witness ==
  /\ pc = "done"
  /\ drOutcome = "maxIterations"
  /\ drIteration = DR_MAX_ITERATIONS + 1
  /\ minRent = Val(0)
  /\ drResult = Null
  /\ currentCosts # dataCosts
  /\ outcome = "optimal"
(* The optimality test of optimizePlanPotentials, applied to plan p *)
PassesOptimalityTest(p) ==
  LET pot == calculatePotentials(p, costs)
  IN IsOptimal(findMaxDelta(p, calculateDeltas(p, costs, pot.u, pot.v)))

\* C30: optimizePlanPotentials tests optimality only at the start of an
\* iteration, on the plan as it stands before any reallocation of that
\* iteration: the plan left by the 10th reallocation is never tested, and the
\* run then ends with the maximum-iterations warning, not with "optimal",
\* whether or not that plan passes the test.
C30_LastPlanUntested ==
  /\ [][pc = "optimize" =>
          /\ outcome' = "optimal" =>
               plan' = plan /\ iteration' = iteration /\ PassesOptimalityTest(plan)
          /\ plan' # plan => outcome' # "optimal"
          /\ (iteration = MAX_ITERATIONS /\ ~PassesOptimalityTest(plan)
                /\ findCycle(plan, ChosenEnteringCell.enteringCell) # Null) =>
               /\ outcome' = "maxIterations"
               /\ iteration' = MAX_ITERATIONS + 1
               /\ pc' # "optimize"]_vars
  /\ [](outcome = "maxIterations" =>
          iteration = MAX_ITERATIONS + 1 /\ Reallocated /\ pc # "optimize")
  /\ [](outcome = "optimal" => iteration <= MAX_ITERATIONS)

C30_Witness ==
  /\ outcome = "maxIterations"
  /\ iteration = MAX_ITERATIONS + 1
  /\ PassesOptimalityTest(plan)
====
